---------------------------- MODULE Spec2Model ----------------------------
(***************************************************************************)
(* Model of the time zone data tooling of system/timezone:                 *)
(*   download-iana-files.py  (FindRemoteTar, DownloadAndReplaceLocalFiles) *)
(*   patches.py              (applyPatchesTo, repack, Apply)               *)
(*   update-tzdata.py        (main and its build stages, WriteSetupFile)   *)
(*                                                                         *)
(* Python strings are sequences of one-character strings; they are         *)
(* compared as Python compares them, code point by code point.             *)
(***************************************************************************)
EXTENDS Integers, Sequences, FiniteSets, TLC

(***************************************************************************)
(* The state: one group of variables for each script                       *)
(***************************************************************************)

\* download-iana-files.py
VARIABLES
  args,                     \* the parsed command line: tools, data, release_version
  nlst,                     \* what ftp.nlst() returns, in the server's order
  fs,                       \* the local files (absolute paths)
  fs0,                      \* fs when the run started
  tmpFiles,                 \* the files of the current directory
  tmpDirs,                  \* temporary directories made so far
  pc,                       \* the position of the run
  after,                    \* where main continues when the call returns
  file_prefixes,            \* the prefixes the loop has still to visit
  local_dir,                \* the call's local_dir
  remote_iana_tar_filename, \* the loop's remote_iana_tar_filename
  local_iana_tar_file,      \* the loop's local_iana_tar_file
  new_files,                \* the call's output_files
  output_files,             \* main's output_files
  outcome,                  \* how the process ended
  log                       \* what the run did, in order

dlVars == <<args, nlst, fs, fs0, tmpFiles, tmpDirs, pc, after, file_prefixes,
            local_dir, remote_iana_tar_filename, local_iana_tar_file,
            new_files, output_files, outcome, log>>

\* patches.py
VARIABLES
  patches_listing,   \* os.listdir(patches_dir), in the order it returns
  pfs,               \* the files of the input directories: path -> content
  pfs0,              \* pfs when the run started
  ptPc,              \* the position of Apply()
  ptTodo,            \* the patch files the loop has still to visit
  applied,           \* the patches applied to the extracted tree, in order
  was_patched,       \* applyPatchesTo's was_patched
  iana_data_tar_file,\* Apply's iana_data_tar_file
  ptResult,          \* what Apply() returned
  ptOutcome          \* how the run ended

ptVars == <<patches_listing, pfs, pfs0, ptPc, ptTodo, applied, was_patched,
            iana_data_tar_file, ptResult, ptOutcome>>

\* update-tzdata.py
VARIABLES
  published,     \* output_data: iana, icu_overlay and android -> what is there
  published0,    \* published when the run started
  distro,        \* the files of output_data/distro: name -> content
  distro0,       \* distro when the run started
  bdPc,          \* the position of main
  bdLog,         \* the stages invoked, in order
  bdFailed,      \* the stage that raised, if one did
  bdOutcome      \* how the run ended

bdVars == <<published, published0, distro, distro0, bdPc, bdLog, bdFailed, bdOutcome>>

\* update-tzdata.py, WriteSetupFile
VARIABLES
  region_files,  \* the lines of each region file of the extracted release
  wsRegion,      \* the index in regions of the file being read
  wsLine,        \* the index of the next line of that file
  links,         \* WriteSetupFile's links
  zones,         \* WriteSetupFile's zones
  setup,         \* the lines of the setup file, once written
  wsPc,          \* the position of WriteSetupFile
  wsOutcome      \* how the call ended

wsVars == <<region_files, wsRegion, wsLine, links, zones, setup, wsPc, wsOutcome>>

\* patches.py, repack: two working trees are repacked one after the other
VARIABLES
  trees,         \* the two working trees: entry name -> content, mode, mtime, owner
  listings,      \* what os.listdir(temp_dir) returns for each tree, in its order
  rpRun,         \* the tree being repacked
  rpPc,          \* the position of repack
  rpTodo,        \* the entries the touch loop has still to visit
  rpArchives,    \* the archive written from each tree, once written
  rpOutcome      \* how the runs ended

rpVars == <<trees, listings, rpRun, rpPc, rpTodo, rpArchives, rpOutcome>>

vars == <<dlVars, ptVars, bdVars, wsVars, rpVars>>

(***************************************************************************)
(* Strings                                                                 *)
(***************************************************************************)

\* ord(): the code points of the characters that occur in the file names
\* and in the lines of the region files.
Ord(c) ==
  CASE c = " " -> 32 [] c = "#" -> 35
    [] c = "-" -> 45 [] c = "." -> 46 [] c = "/" -> 47
    [] c = "0" -> 48 [] c = "1" -> 49 [] c = "2" -> 50 [] c = "3" -> 51
    [] c = "A" -> 65 [] c = "B" -> 66 [] c = "L" -> 76
    [] c = "N" -> 78 [] c = "Z" -> 90
    [] c = "a" -> 97 [] c = "b" -> 98 [] c = "c" -> 99 [] c = "d" -> 100
    [] c = "e" -> 101 [] c = "g" -> 103 [] c = "h" -> 104 [] c = "i" -> 105
    [] c = "k" -> 107 [] c = "l" -> 108 [] c = "n" -> 110 [] c = "o" -> 111 [] c = "p" -> 112
    [] c = "r" -> 114 [] c = "s" -> 115 [] c = "t" -> 116 [] c = "x" -> 120
    [] c = "z" -> 122

\* Python's str < str: the first differing code point decides, a proper
\* prefix is smaller.
RECURSIVE StrLess(_, _)
StrLess(a, b) ==
  IF b = <<>> THEN FALSE
  ELSE IF a = <<>> THEN TRUE
  ELSE IF Ord(Head(a)) < Ord(Head(b)) THEN TRUE
  ELSE IF Ord(Head(a)) > Ord(Head(b)) THEN FALSE
  ELSE StrLess(Tail(a), Tail(b))

\* Python's str <= str.
StrLessEq(a, b) == a = b \/ StrLess(a, b)

\* str.startswith
StartsWith(s, p) == Len(p) <= Len(s) /\ SubSeq(s, 1, Len(p)) = p

\* str.endswith
EndsWith(s, p) == Len(p) <= Len(s) /\ SubSeq(s, Len(s) - Len(p) + 1, Len(s)) = p

\* c in s, for a one-character c
Contains(s, c) == \E i \in 1..Len(s) : s[i] = c

\* the elements of a list
Range(s) == { s[i] : i \in 1..Len(s) }

\* An optional value: None, or a one-element tuple holding the value.
None == <<>>
Some(x) == <<x>>

\* The file names of the model.
TARGZ == <<".", "t", "a", "r", ".", "g", "z">>
ASC == <<".", "a", "s", "c">>
TZDATA20 == <<"t", "z", "d", "a", "t", "a", "2", "0">>
TZCODE20 == <<"t", "z", "c", "o", "d", "e", "2", "0">>
V2023a == <<"2", "0", "2", "3", "a">>
V2023b == <<"2", "0", "2", "3", "b">>
DataA == <<"t", "z", "d", "a", "t", "a">> \o V2023a \o TARGZ
DataB == <<"t", "z", "d", "a", "t", "a">> \o V2023b \o TARGZ
CodeA == <<"t", "z", "c", "o", "d", "e">> \o V2023a \o TARGZ
\* a name with a path separator that passes the prefix and suffix filter
Bogus == <<"t", "z", "d", "a", "t", "a", "2", "0", "2", "3", "c", "/", "x">> \o TARGZ
\* a signature file of the remote directory: not an archive
DataBAsc == DataB \o ASC

\* iana_tools_dir and iana_data_dir, shortened (download-iana-files.py 32-33)
iana_tools_dir == <<"/", "t">>
iana_data_dir == <<"/", "d">>

\* '%s/%s' % (dir, name)
PathJoin(dir, name) == dir \o <<"/">> \o name

\* os.path.basename: what follows the last '/'
RECURSIVE Basename(_)
Basename(path) ==
  IF ~Contains(path, "/") THEN path
  ELSE Basename(Tail(path))


(***************************************************************************)
(* Bounds of the model                                                     *)
(***************************************************************************)

\* the longest remote listing ftp.nlst() returns
MaxListing == 2

(***************************************************************************)
(* download-iana-files.py: FindRemoteTar                                   *)
(***************************************************************************)

\* ScanListing without the test for '/'
RECURSIVE ScanListingUnchecked(_, _, _)
ScanListingUnchecked(names, file_prefix, iana_tar_filenames) ==
  IF names = <<>> THEN [exit |-> FALSE, names |-> iana_tar_filenames]
  ELSE LET filename == Head(names) IN
    ScanListingUnchecked(Tail(names), file_prefix,
      IF StartsWith(filename, file_prefix) /\ EndsWith(filename, TARGZ)
      THEN Append(iana_tar_filenames, filename)
      ELSE iana_tar_filenames)

\* the loop over ftp.nlst(): the process exits at the first name holding a
\* '/', otherwise the names with the prefix and the suffix are collected
RECURSIVE ScanListing(_, _, _)
ScanListing(names, file_prefix, iana_tar_filenames) ==
  IF names = <<>> THEN [exit |-> FALSE, names |-> iana_tar_filenames]
  ELSE LET filename == Head(names) IN
    IF Contains(filename, "/") THEN [exit |-> TRUE, names |-> <<>>]
    ELSE ScanListing(Tail(names), file_prefix,
           IF StartsWith(filename, file_prefix) /\ EndsWith(filename, TARGZ)
           THEN Append(iana_tar_filenames, filename)
           ELSE iana_tar_filenames)

\* the file name a pinned release must have
ExpectedFilename(file_prefix, version) ==
  (IF EndsWith(file_prefix, <<"2", "0">>)
   THEN SubSeq(file_prefix, 1, Len(file_prefix) - 2)
   ELSE file_prefix) \o version \o TARGZ

RECURSIVE InsertDescending(_, _)
InsertDescending(x, s) ==
  IF s = <<>> THEN <<x>>
  ELSE IF StrLess(Head(s), x) THEN <<x>> \o s
  ELSE <<Head(s)>> \o InsertDescending(x, Tail(s))

RECURSIVE InsertAscending(_, _)
InsertAscending(x, s) ==
  IF s = <<>> THEN <<x>>
  ELSE IF StrLess(x, Head(s)) THEN <<x>> \o s
  ELSE <<Head(s)>> \o InsertAscending(x, Tail(s))

\* SortReverse without reverse=True
RECURSIVE SortForward(_)
SortForward(s) ==
  IF s = <<>> THEN <<>> ELSE InsertAscending(Head(s), SortForward(Tail(s)))

\* list.sort(reverse=True)
RECURSIVE SortReverse(_)
SortReverse(s) ==
  IF s = <<>> THEN <<>> ELSE InsertDescending(Head(s), SortReverse(Tail(s)))

ExitResult == [kind |-> "exit", name |-> <<>>]
ReturnResult(name) == [kind |-> "return", name |-> name]

\* SelectFrom falling back to the latest name when the pinned one is not listed
SelectFromLatest(iana_tar_filenames, file_prefix, release_version) ==
  LET sorted == SortReverse(iana_tar_filenames)
      expected_filename ==
        IF release_version # None
        THEN ExpectedFilename(file_prefix, release_version[1]) ELSE <<>> IN
  IF release_version # None /\ expected_filename \in Range(iana_tar_filenames)
  THEN ReturnResult(expected_filename)
  ELSE IF Len(sorted) = 0 THEN ExitResult ELSE ReturnResult(sorted[1])

\* what FindRemoteTar does once the listing is filtered: the pinned name if
\* it is listed, else the first name of the list sorted in reverse
SelectFrom(iana_tar_filenames, file_prefix, release_version) ==
  IF release_version # None
  THEN LET expected_filename == ExpectedFilename(file_prefix, release_version[1]) IN
       IF expected_filename \notin Range(iana_tar_filenames)
       THEN ExitResult
       ELSE ReturnResult(expected_filename)
  ELSE LET sorted == SortReverse(iana_tar_filenames) IN
       IF Len(sorted) = 0 THEN ExitResult ELSE ReturnResult(sorted[1])

\* FindRemoteTar(ftp, file_prefix, release_version), ftp_nlst being what
\* ftp.nlst() returns
FindRemoteTar(ftp_nlst, file_prefix, release_version) ==
  LET scan == ScanListing(ftp_nlst, file_prefix, <<>>) IN
  IF scan.exit THEN ExitResult
  ELSE SelectFrom(scan.names, file_prefix, release_version)

(***************************************************************************)
(* The file system: the set of the absolute paths of the files that exist. *)
(***************************************************************************)

\* os.listdir(dir): the names of the files directly in dir
ListDir(files, dir) ==
  { Basename(p) : p \in { q \in files : q = PathJoin(dir, Basename(q)) } }

\* tzdatautil.GetIanaTarFile(dir, prefix): the path of the one file of dir
\* named <prefix>*.tar.gz, None when there is none. The helper is imported
\* from external/icu/tools; the callers test its result for truth and take
\* its base name, and a directory never holds two archives of one prefix
\* when it is called.
GetIanaTarFile(files, dir, file_prefix) ==
  LET matching == { n \in ListDir(files, dir) :
                      StartsWith(n, file_prefix) /\ EndsWith(n, TARGZ) } IN
  IF matching = {} THEN None
  ELSE Some(PathJoin(dir, CHOOSE n \in matching : TRUE))

\* 'if local_iana_tar_file:' : neither None nor the empty string
Truthy(opt) == opt # None /\ opt[1] # <<>>

\* '%s.asc' % local_iana_tar_file ; None formats as 'None'
SignatureOf(opt) ==
  (IF opt = None THEN <<"N", "o", "n", "e">> ELSE opt[1]) \o ASC

\* SkipPrefix never skipping when a release is pinned
SkipPrefixUnlessPinned(remote_filename, local_file) ==
  /\ args.release_version = None
  /\ Truthy(local_file)
  /\ StrLessEq(remote_filename, Basename(local_file[1]))

\* SkipPrefix with < in place of <=
SkipPrefixStrict(remote_filename, local_file) ==
  /\ Truthy(local_file)
  /\ StrLess(remote_filename, Basename(local_file[1]))

\* lines 91-97: the prefix is skipped when there is a local archive and the
\* remote name is not greater than its base name
SkipPrefix(remote_filename, local_file) ==
  /\ Truthy(local_file)
  /\ StrLessEq(remote_filename, Basename(local_file[1]))


(***************************************************************************)
(* download-iana-files.py: the state of one run                            *)
(***************************************************************************)
\* one entry of the log
Event(op, name, local) ==
  [op |-> op, dir |-> local_dir, prefix |-> Head(file_prefixes),
   name |-> name, local |-> local]

\* the names the remote directory may list
RemoteNames == {DataA, DataB, CodeA, Bogus, DataBAsc}

\* the listings: the lists without repetition of at most MaxListing names
Listings ==
  { l \in UNION { [1..n -> RemoteNames] : n \in 0..MaxListing } :
      \A i, j \in DOMAIN l : i # j => l[i] # l[j] }

\* a local directory holds at most one archive per prefix, with its
\* signature beside it when the signatures were kept
LocalStates(dir, archives, signed) ==
  { {} } \cup
  { IF signed THEN {PathJoin(dir, a), PathJoin(dir, a \o ASC)} ELSE {PathJoin(dir, a)} :
      a \in archives }

InitDownload ==
  /\ args \in [tools : BOOLEAN, data : BOOLEAN,
               release_version : {None, Some(V2023a), Some(V2023b)}]
  /\ nlst \in Listings
  /\ \E signed \in BOOLEAN :
       \E td \in LocalStates(iana_tools_dir, {DataA, DataB}, signed),
          tc \in LocalStates(iana_tools_dir, {CodeA}, signed),
          dd \in LocalStates(iana_data_dir, {DataA, DataB}, signed) :
         fs = td \cup tc \cup dd
  /\ fs0 = fs
  /\ tmpFiles = {}
  /\ tmpDirs = 0
  /\ pc = "parse_args"
  /\ after = "done"
  /\ file_prefixes = <<>>
  /\ local_dir = <<>>
  /\ remote_iana_tar_filename = <<>>
  /\ local_iana_tar_file = None
  /\ new_files = <<>>
  /\ output_files = <<>>
  /\ outcome = "running"
  /\ log = <<>>

\* the process ends: sys.exit, or an exception nothing catches
Halt(how) ==
  /\ pc' = "done"
  /\ outcome' = how

\* main, lines 139-142: nothing to do is a usage error
ParseArgs ==
  /\ pc = "parse_args"
  /\ IF ~args.tools /\ ~args.data
     THEN Halt("usage_error")
     ELSE pc' = "tools" /\ UNCHANGED outcome
  /\ UNCHANGED <<args, nlst, fs, fs0, tmpFiles, tmpDirs, after, file_prefixes,
                 local_dir, remote_iana_tar_filename, local_iana_tar_file,
                 new_files, output_files, log>>
  /\ UNCHANGED <<ptVars, bdVars, wsVars, rpVars>>

\* DownloadAndReplaceLocalFiles is entered: line 86
Call(prefixes, dir, cont) ==
  /\ pc' = "loop"
  /\ after' = cont
  /\ file_prefixes' = prefixes
  /\ local_dir' = dir
  /\ new_files' = <<>>

\* main, lines 151-158
MainTools ==
  /\ pc = "tools"
  /\ IF args.tools
     THEN Call(<<TZDATA20, TZCODE20>>, iana_tools_dir, "data")
     ELSE pc' = "data" /\ UNCHANGED <<after, file_prefixes, local_dir, new_files>>
  /\ UNCHANGED <<args, nlst, fs, fs0, tmpFiles, tmpDirs,
                 remote_iana_tar_filename, local_iana_tar_file,
                 output_files, outcome, log>>
  /\ UNCHANGED <<ptVars, bdVars, wsVars, rpVars>>

\* main, lines 160-162
MainData ==
  /\ pc = "data"
  /\ IF args.data
     THEN Call(<<TZDATA20>>, iana_data_dir, "report")
     ELSE pc' = "report" /\ UNCHANGED <<after, file_prefixes, local_dir, new_files>>
  /\ UNCHANGED <<args, nlst, fs, fs0, tmpFiles, tmpDirs,
                 remote_iana_tar_filename, local_iana_tar_file,
                 output_files, outcome, log>>
  /\ UNCHANGED <<ptVars, bdVars, wsVars, rpVars>>

\* lines 88-100, FindRemoteTar exits the process
SelectExits ==
  /\ pc = "loop" /\ file_prefixes # <<>>
  /\ FindRemoteTar(nlst, Head(file_prefixes), args.release_version).kind = "exit"
  /\ Halt("exit_1")
  /\ log' = Append(log, Event("find_exit", <<>>, None))
  /\ UNCHANGED <<args, nlst, fs, fs0, tmpFiles, tmpDirs, after, file_prefixes,
                 local_dir, remote_iana_tar_filename, local_iana_tar_file,
                 new_files, output_files>>
  /\ UNCHANGED <<ptVars, bdVars, wsVars, rpVars>>

\* SelectSkips with the temporary directory made before the comparison
SelectSkipsInTemp ==
  /\ pc = "loop" /\ file_prefixes # <<>>
  /\ LET found == FindRemoteTar(nlst, Head(file_prefixes), args.release_version)
         local == GetIanaTarFile(fs, local_dir, Head(file_prefixes)) IN
       /\ found.kind = "return"
       /\ SkipPrefix(found.name, local)
       /\ remote_iana_tar_filename' = found.name
       /\ local_iana_tar_file' = local
       /\ log' = Append(log, Event("skip", found.name, local))
  /\ file_prefixes' = Tail(file_prefixes)
  /\ tmpFiles' = {}
  /\ tmpDirs' = tmpDirs + 1
  /\ UNCHANGED <<args, nlst, fs, fs0, pc, after, local_dir,
                 new_files, output_files, outcome>>
  /\ UNCHANGED <<ptVars, bdVars, wsVars, rpVars>>

\* lines 88-97, the remote file is not newer: continue with the next prefix
SelectSkips ==
  /\ pc = "loop" /\ file_prefixes # <<>>
  /\ LET found == FindRemoteTar(nlst, Head(file_prefixes), args.release_version)
         local == GetIanaTarFile(fs, local_dir, Head(file_prefixes)) IN
       /\ found.kind = "return"
       /\ SkipPrefix(found.name, local)
       /\ remote_iana_tar_filename' = found.name
       /\ local_iana_tar_file' = local
       /\ log' = Append(log, Event("skip", found.name, local))
  /\ file_prefixes' = Tail(file_prefixes)
  /\ UNCHANGED <<args, nlst, fs, fs0, tmpFiles, tmpDirs, pc, after, local_dir,
                 new_files, output_files, outcome>>
  /\ UNCHANGED <<ptVars, bdVars, wsVars, rpVars>>

\* lines 88-100, the remote file is new: a fresh temporary directory becomes
\* the current directory
SelectNew ==
  /\ pc = "loop" /\ file_prefixes # <<>>
  /\ LET found == FindRemoteTar(nlst, Head(file_prefixes), args.release_version)
         local == GetIanaTarFile(fs, local_dir, Head(file_prefixes)) IN
       /\ found.kind = "return"
       /\ ~SkipPrefix(found.name, local)
       /\ remote_iana_tar_filename' = found.name
       /\ local_iana_tar_file' = local
       /\ log' = Append(log, Event("new", found.name, local))
  /\ tmpFiles' = {}
  /\ tmpDirs' = tmpDirs + 1
  /\ pc' = "fetch_tar"
  /\ UNCHANGED <<args, nlst, fs, fs0, after, file_prefixes, local_dir,
                 new_files, output_files, outcome>>
  /\ UNCHANGED <<ptVars, bdVars, wsVars, rpVars>>

\* FtpRetrieveFile: the file is opened for writing in the current directory,
\* then retrieved; the retrieval may raise
Retrieve(filename, next) ==
  /\ tmpFiles' = tmpFiles \cup {filename}
  /\ \E ok \in BOOLEAN :
       IF ok
       THEN /\ pc' = next
            /\ log' = Append(log, Event("fetch", filename, None))
            /\ UNCHANGED outcome
       ELSE /\ Halt("raised")
            /\ log' = Append(log, Event("fetch_failed", filename, None))
  /\ UNCHANGED <<args, nlst, fs, fs0, tmpDirs, after, file_prefixes, local_dir,
                 remote_iana_tar_filename, local_iana_tar_file,
                 new_files, output_files>>

\* lines 102-103
FetchTar ==
  /\ pc = "fetch_tar"
  /\ Retrieve(remote_iana_tar_filename, "fetch_sig")
  /\ UNCHANGED <<ptVars, bdVars, wsVars, rpVars>>

\* lines 105-107
FetchSignature ==
  /\ pc = "fetch_sig"
  /\ Retrieve(remote_iana_tar_filename \o ASC, "check")
  /\ UNCHANGED <<ptVars, bdVars, wsVars, rpVars>>

\* CheckSignature with the CalledProcessError caught and not raised again
CheckSignatureSwallowed ==
  /\ pc = "check"
  /\ \E verified \in BOOLEAN :
       /\ pc' = "copy_tar"
       /\ log' = Append(log, Event(IF verified THEN "verify_ok" ELSE "verify_failed",
                                   remote_iana_tar_filename, None))
  /\ UNCHANGED <<args, nlst, fs, fs0, tmpFiles, tmpDirs, after, file_prefixes,
                 local_dir, remote_iana_tar_filename, local_iana_tar_file,
                 new_files, output_files, outcome>>
  /\ UNCHANGED <<ptVars, bdVars, wsVars, rpVars>>

\* line 109, CheckSignature: gpg --verify succeeds, or the
\* CalledProcessError is raised again and ends the run
CheckSignature ==
  /\ pc = "check"
  /\ \E verified \in BOOLEAN :
       IF verified
       THEN /\ pc' = "copy_tar"
            /\ log' = Append(log, Event("verify_ok", remote_iana_tar_filename, None))
            /\ UNCHANGED outcome
       ELSE /\ Halt("raised")
            /\ log' = Append(log, Event("verify_failed", remote_iana_tar_filename, None))
  /\ UNCHANGED <<args, nlst, fs, fs0, tmpFiles, tmpDirs, after, file_prefixes,
                 local_dir, remote_iana_tar_filename, local_iana_tar_file,
                 new_files, output_files>>
  /\ UNCHANGED <<ptVars, bdVars, wsVars, rpVars>>

\* lines 111-112
CopyTar ==
  /\ pc = "copy_tar"
  /\ LET new_local_iana_tar_file == PathJoin(local_dir, remote_iana_tar_filename) IN
       /\ fs' = fs \cup {new_local_iana_tar_file}
       /\ log' = Append(log, Event("copy", new_local_iana_tar_file, None))
  /\ pc' = "copy_sig"
  /\ UNCHANGED <<args, nlst, fs0, tmpFiles, tmpDirs, after, file_prefixes,
                 local_dir, remote_iana_tar_filename, local_iana_tar_file,
                 new_files, output_files, outcome>>
  /\ UNCHANGED <<ptVars, bdVars, wsVars, rpVars>>

\* lines 113-117
CopySignature ==
  /\ pc = "copy_sig"
  /\ LET new_local_iana_tar_file == PathJoin(local_dir, remote_iana_tar_filename)
         new_local_signature_file ==
           PathJoin(local_dir, remote_iana_tar_filename \o ASC) IN
       /\ fs' = fs \cup {new_local_signature_file}
       /\ log' = Append(log, Event("copy", new_local_signature_file, None))
       /\ new_files' = new_files \o <<new_local_iana_tar_file, new_local_signature_file>>
  /\ pc' = "remove_tar"
  /\ UNCHANGED <<args, nlst, fs0, tmpFiles, tmpDirs, after, file_prefixes,
                 local_dir, remote_iana_tar_filename, local_iana_tar_file,
                 output_files, outcome>>
  /\ UNCHANGED <<ptVars, bdVars, wsVars, rpVars>>

\* RemoveLocalTar leaving the previous archive in place
RemoveLocalTarSkipped ==
  /\ pc = "remove_tar"
  /\ pc' = "remove_sig"
  /\ UNCHANGED <<args, nlst, fs, fs0, tmpFiles, tmpDirs, after, file_prefixes,
                 local_dir, remote_iana_tar_filename, local_iana_tar_file,
                 new_files, output_files, outcome, log>>
  /\ UNCHANGED <<ptVars, bdVars, wsVars, rpVars>>

\* lines 119-121
RemoveLocalTar ==
  /\ pc = "remove_tar"
  /\ IF Truthy(local_iana_tar_file)
     THEN /\ fs' = fs \ {local_iana_tar_file[1]}
          /\ log' = Append(log, Event("remove", local_iana_tar_file[1], None))
     ELSE UNCHANGED <<fs, log>>
  /\ pc' = "remove_sig"
  /\ UNCHANGED <<args, nlst, fs0, tmpFiles, tmpDirs, after, file_prefixes,
                 local_dir, remote_iana_tar_filename, local_iana_tar_file,
                 new_files, output_files, outcome>>
  /\ UNCHANGED <<ptVars, bdVars, wsVars, rpVars>>

\* lines 123-125, and the loop goes on with the next prefix. A relative
\* path ('None.asc') names a file of the current directory.
RemoveLocalSignature ==
  /\ pc = "remove_sig"
  /\ LET local_signature_file == SignatureOf(local_iana_tar_file) IN
       IF local_signature_file \in fs
       THEN /\ fs' = fs \ {local_signature_file}
            /\ log' = Append(log, Event("remove", local_signature_file, None))
            /\ UNCHANGED tmpFiles
       ELSE IF local_signature_file \in tmpFiles
       THEN /\ tmpFiles' = tmpFiles \ {local_signature_file}
            /\ UNCHANGED <<fs, log>>
       ELSE UNCHANGED <<fs, log, tmpFiles>>
  /\ file_prefixes' = Tail(file_prefixes)
  /\ pc' = "loop"
  /\ UNCHANGED <<args, nlst, fs0, tmpDirs, after, local_dir,
                 remote_iana_tar_filename, local_iana_tar_file,
                 new_files, output_files, outcome>>
  /\ UNCHANGED <<ptVars, bdVars, wsVars, rpVars>>

\* line 127, and main's output_files += new_files (lines 159 and 163)
Return ==
  /\ pc = "loop" /\ file_prefixes = <<>>
  /\ output_files' = output_files \o new_files
  /\ pc' = after
  /\ UNCHANGED <<args, nlst, fs, fs0, tmpFiles, tmpDirs, after, file_prefixes,
                 local_dir, remote_iana_tar_filename, local_iana_tar_file,
                 new_files, outcome, log>>
  /\ UNCHANGED <<ptVars, bdVars, wsVars, rpVars>>

\* main, lines 165-170
Report ==
  /\ pc = "report"
  /\ IF Len(output_files) = 0
     THEN Halt("no_files_updated")
     ELSE Halt("new_files")
  /\ UNCHANGED <<args, nlst, fs, fs0, tmpFiles, tmpDirs, after, file_prefixes,
                 local_dir, remote_iana_tar_filename, local_iana_tar_file,
                 new_files, output_files, log>>
  /\ UNCHANGED <<ptVars, bdVars, wsVars, rpVars>>

NextDownload ==
  \/ ParseArgs \/ MainTools \/ MainData
  \/ SelectExits \/ SelectSkips \/ SelectNew
  \/ FetchTar \/ FetchSignature \/ CheckSignature
  \/ CopyTar \/ CopySignature \/ RemoveLocalTar \/ RemoveLocalSignature
  \/ Return \/ Report


(***************************************************************************)
(* patches.py                                                              *)
(***************************************************************************)

\* the most files os.listdir(patches_dir) returns
MaxPatches == 3

\* iana_original_input_data_dir and iana_patched_data_dir, shortened
iana_original_input_data_dir == <<"/", "o">>
iana_patched_data_dir == <<"/", "p">>

TZDATA == <<"t", "z", "d", "a", "t", "a">>
DOTPATCH == <<".", "p", "a", "t", "c", "h">>
Digits == {"0", "1", "2", "3"}

\* the files the patch directory may hold
Patch1a == <<"1", "-", "a">> \o DOTPATCH
Patch2b == <<"2", "-", "b">> \o DOTPATCH
Patch10c == <<"1", "0", "-", "c">> \o DOTPATCH
Notes == <<"n", "o", "t", "e", "s">>
PatchFiles == {Patch1a, Patch2b, Patch10c, Notes}

\* how many digits the name starts with
RECURSIVE LeadingDigits(_)
LeadingDigits(s) ==
  IF s # <<>> /\ Head(s) \in Digits THEN 1 + LeadingDigits(Tail(s)) ELSE 0

\* the last position at which sub occurs in s, 0 when it does not occur
LastIndexOf(s, sub) ==
  LET at == { i \in 1..Len(s) :
                i + Len(sub) - 1 <= Len(s) /\ SubSeq(s, i, i + Len(sub) - 1) = sub } IN
  IF at = {} THEN 0 ELSE CHOOSE i \in at : \A j \in at : j <= i

\* re.compile('\d+-(.*)\.patch').match(patch_file): None, or group(1). The
\* match is anchored at the start only, and .* is greedy.
PatchMatch(patch_file) ==
  LET k == LeadingDigits(patch_file) IN
  IF k = 0 \/ k >= Len(patch_file) \/ patch_file[k + 1] # "-" THEN None
  ELSE LET rest == SubSeq(patch_file, k + 2, Len(patch_file))
           at == LastIndexOf(rest, DOTPATCH) IN
       IF at = 0 THEN None ELSE Some(SubSeq(rest, 1, at - 1))

\* the patch directory listings: lists without repetition
PatchListings ==
  { l \in UNION { [1..n -> PatchFiles] : n \in 0..MaxPatches } :
      \A i, j \in DOMAIN l : i # j => l[i] # l[j] }

\* the content of a file: an upstream archive, or an archive repacked from
\* a tree to which patches were applied
Upstream(name) == [kind |-> "upstream", of |-> name, patches |-> <<>>]
Repacked(name, patches) == [kind |-> "repacked", of |-> name, patches |-> patches]

\* a file system with one more file, or a file rewritten
WriteFile(files, path, content) ==
  [q \in DOMAIN files \cup {path} |-> IF q = path THEN content ELSE files[q]]

\* os.remove
RemoveFiles(files, paths) == [q \in DOMAIN files \ paths |-> files[q]]

\* the files of one directory, with their contents
DirContents(files, dir) ==
  { <<q, files[q]>> : q \in { r \in DOMAIN files : r = PathJoin(dir, Basename(r)) } }

\* before a run the patched directory is empty or holds the archive an
\* earlier run repacked
InitPatches ==
  /\ patches_listing \in PatchListings
  /\ \E orig \in {DataA, DataB}, old \in {None, Some(DataA), Some(DataB)} :
       pfs = LET base == WriteFile(<<>>, PathJoin(iana_original_input_data_dir, orig),
                                   Upstream(orig)) IN
             IF old = None THEN base
             ELSE WriteFile(base, PathJoin(iana_patched_data_dir, old[1]),
                            Repacked(old[1], <<Patch1a>>))
  /\ pfs0 = pfs
  /\ ptPc = "extract"
  /\ ptTodo = <<>>
  /\ applied = <<>>
  /\ was_patched = FALSE
  /\ iana_data_tar_file = None
  /\ ptResult = None
  /\ ptOutcome = "running"

PtHalt(how) ==
  /\ ptPc' = "done"
  /\ ptOutcome' = how

\* Apply, lines 82-83: the original archive is extracted into temp_dir; the
\* extraction may raise
ApplyExtract ==
  /\ ptPc = "extract"
  /\ iana_data_tar_file' = GetIanaTarFile(DOMAIN pfs, iana_original_input_data_dir, TZDATA)
  /\ \E ok \in BOOLEAN :
       IF ok THEN ptPc' = "clean" /\ UNCHANGED ptOutcome
       ELSE PtHalt("raised")
  /\ UNCHANGED <<patches_listing, pfs, pfs0, ptTodo, applied, was_patched, ptResult>>
  /\ UNCHANGED <<dlVars, bdVars, wsVars, rpVars>>

\* ApplyClean without the removal of the files of the patched directory
ApplyCleanSkipped ==
  /\ ptPc = "clean"
  /\ ptTodo' = patches_listing
  /\ was_patched' = FALSE
  /\ ptPc' = "patch"
  /\ UNCHANGED <<patches_listing, pfs, pfs0, applied, iana_data_tar_file, ptResult, ptOutcome>>
  /\ UNCHANGED <<dlVars, bdVars, wsVars, rpVars>>

\* Apply, lines 85-88: every file of the patched directory is removed; then
\* applyPatchesTo starts its loop over os.listdir(patches_dir)
ApplyClean ==
  /\ ptPc = "clean"
  /\ pfs' = RemoveFiles(pfs, { q \in DOMAIN pfs :
                                 q = PathJoin(iana_patched_data_dir, Basename(q)) })
  /\ ptTodo' = patches_listing
  /\ was_patched' = FALSE
  /\ ptPc' = "patch"
  /\ UNCHANGED <<patches_listing, pfs0, applied, iana_data_tar_file, ptResult, ptOutcome>>
  /\ UNCHANGED <<dlVars, bdVars, wsVars, rpVars>>

\* applyPatchesTo, lines 53-55: a file the pattern does not match is passed over
PatchNoMatch ==
  /\ ptPc = "patch" /\ ptTodo # <<>>
  /\ PatchMatch(Head(ptTodo)) = None
  /\ ptTodo' = Tail(ptTodo)
  /\ UNCHANGED <<patches_listing, pfs, pfs0, ptPc, applied, was_patched,
                 iana_data_tar_file, ptResult, ptOutcome>>
  /\ UNCHANGED <<dlVars, bdVars, wsVars, rpVars>>

\* PatchFile reporting the failure and going on with the next patch file
PatchFileContinues ==
  /\ ptPc = "patch" /\ ptTodo # <<>>
  /\ PatchMatch(Head(ptTodo)) # None
  /\ \E ret_code \in {0, 256} :
       IF ret_code # 0
       THEN /\ ptOutcome' = "patch_failed"
            /\ ptTodo' = Tail(ptTodo)
            /\ UNCHANGED <<ptPc, applied, was_patched>>
       ELSE /\ applied' = Append(applied, [patch |-> Head(ptTodo),
                                           file |-> PatchMatch(Head(ptTodo))[1]])
            /\ was_patched' = TRUE
            /\ ptTodo' = Tail(ptTodo)
            /\ UNCHANGED <<ptPc, ptOutcome>>
  /\ UNCHANGED <<patches_listing, pfs, pfs0, iana_data_tar_file, ptResult>>
  /\ UNCHANGED <<dlVars, bdVars, wsVars, rpVars>>

\* applyPatchesTo, lines 55-61: patch(1) is run on the file the name gives;
\* a non-zero result ends the process
PatchFile ==
  /\ ptPc = "patch" /\ ptTodo # <<>>
  /\ PatchMatch(Head(ptTodo)) # None
  /\ \E ret_code \in {0, 256} :
       IF ret_code # 0
       THEN /\ PtHalt("patch_failed")
            /\ UNCHANGED <<ptTodo, applied, was_patched>>
       ELSE /\ applied' = Append(applied, [patch |-> Head(ptTodo),
                                           file |-> PatchMatch(Head(ptTodo))[1]])
            /\ was_patched' = TRUE
            /\ ptTodo' = Tail(ptTodo)
            /\ UNCHANGED <<ptPc, ptOutcome>>
  /\ UNCHANGED <<patches_listing, pfs, pfs0, iana_data_tar_file, ptResult>>
  /\ UNCHANGED <<dlVars, bdVars, wsVars, rpVars>>

\* ApplyDecide repacking whether or not a patch was applied
ApplyDecideAlwaysRepacks ==
  /\ ptPc = "patch" /\ ptTodo = <<>>
  /\ ptPc' = "repack"
  /\ UNCHANGED <<patches_listing, pfs, pfs0, ptTodo, applied, was_patched,
                 iana_data_tar_file, ptResult, ptOutcome>>
  /\ UNCHANGED <<dlVars, bdVars, wsVars, rpVars>>

\* Apply, lines 90-97 without repack: with no patch applied the original
\* archive is returned
ApplyDecide ==
  /\ ptPc = "patch" /\ ptTodo = <<>>
  /\ IF was_patched
     THEN ptPc' = "repack" /\ UNCHANGED <<ptResult, ptOutcome>>
     ELSE /\ ptResult' = iana_data_tar_file
          /\ PtHalt("returned")
  /\ UNCHANGED <<patches_listing, pfs, pfs0, ptTodo, applied, was_patched,
                 iana_data_tar_file>>
  /\ UNCHANGED <<dlVars, bdVars, wsVars, rpVars>>

\* archive_name, line 92: what follows the last '/'
ArchiveName(path) == Basename(path)

\* Apply, lines 92-95, and repack: the shell creates the archive in the
\* patched directory, and a non-zero result ends the process
Repack ==
  /\ ptPc = "repack"
  /\ LET archive_name == ArchiveName(iana_data_tar_file[1])
         patched_data_tar_file == PathJoin(iana_patched_data_dir, archive_name) IN
       /\ pfs' = WriteFile(pfs, patched_data_tar_file,
                           Repacked(archive_name, [i \in DOMAIN applied |-> applied[i].patch]))
       /\ \E ret_code \in {0, 256} :
            IF ret_code # 0
            THEN PtHalt("repack_failed") /\ UNCHANGED ptResult
            ELSE /\ ptResult' = Some(patched_data_tar_file)
                 /\ PtHalt("returned")
  /\ UNCHANGED <<patches_listing, pfs0, ptTodo, applied, was_patched, iana_data_tar_file>>
  /\ UNCHANGED <<dlVars, bdVars, wsVars, rpVars>>

NextPatches ==
  \/ ApplyExtract \/ ApplyClean \/ PatchNoMatch \/ PatchFile
  \/ ApplyDecide \/ Repack

(***************************************************************************)
(* update-tzdata.py                                                        *)
(***************************************************************************)

\* the files output_data/distro may hold before a run
DistroZip == <<"d", ".", "z", "i", "p">>
DistroTxt == <<"d", ".", "t", "x", "t">>
DistroFiles == {DistroZip, DistroTxt, Notes}

\* the other published locations
Locations == {"iana", "icu_overlay", "android"}

InitBuild ==
  /\ published \in [Locations -> {"absent", "old"}]
  /\ published0 = published
  /\ \E have \in SUBSET DistroFiles : distro = [f \in have |-> "old"]
  /\ distro0 = distro
  /\ bdPc = "extract"
  /\ bdLog = <<>>
  /\ bdFailed = "none"
  /\ bdOutcome = "running"

\* Stage going on with the next stage when the external step failed
StageContinues(name, next, ok) ==
  /\ bdLog' = Append(bdLog, name)
  /\ bdPc' = next
  /\ IF ok
     THEN UNCHANGED <<bdFailed, bdOutcome>>
     ELSE bdFailed' = name /\ bdOutcome' = "raised"
  /\ UNCHANGED <<published0, distro0, dlVars, ptVars, wsVars, rpVars>>

\* a stage that calls an external tool or may raise: it is invoked, and
\* either succeeds, and main goes on, or raises, which ends the run
Stage(name, next, ok) ==
  /\ bdLog' = Append(bdLog, name)
  /\ IF ok
     THEN bdPc' = next /\ UNCHANGED <<bdFailed, bdOutcome>>
     ELSE bdPc' = "done" /\ bdFailed' = name /\ bdOutcome' = "raised"
  /\ UNCHANGED <<published0, distro0, dlVars, ptVars, wsVars, rpVars>>

\* main, lines 184-187: GetIanaTarFile, ExtractIanaData, ExtractIanaVersion
ExtractIanaData ==
  /\ bdPc = "extract"
  /\ \E ok \in BOOLEAN : Stage("extract", "icu_build", ok)
  /\ UNCHANGED <<published, distro>>

\* BuildIcuData, lines 81-87: the ICU build in tmp_dir and the system image files
BuildIcuData ==
  /\ bdPc = "icu_build"
  /\ \E ok \in BOOLEAN : Stage("icu_build", "icu_overlay", ok)
  /\ UNCHANGED <<published, distro>>

\* BuildIcuData, lines 89-91: MakeAndCopyOverlayTzIcuData is given the file
\* of output_data/icu_overlay to write
MakeAndCopyOverlayTzIcuData ==
  /\ bdPc = "icu_overlay"
  /\ \E ok \in BOOLEAN :
       /\ Stage("icu_overlay", "zic", ok)
       /\ published' = IF ok THEN [published EXCEPT !["icu_overlay"] = "new"]
                       ELSE published
  /\ UNCHANGED distro

\* BuildTzdata, lines 109-119: zic writes into tmp_dir
Zic ==
  /\ bdPc = "zic"
  /\ \E ok \in BOOLEAN : Stage("zic", "setup", ok)
  /\ UNCHANGED <<published, distro>>

\* BuildTzdata, line 121: WriteSetupFile writes into tmp_dir
WriteSetup ==
  /\ bdPc = "setup"
  /\ \E ok \in BOOLEAN : Stage("setup", "make_compactor", ok)
  /\ UNCHANGED <<published, distro>>

\* BuildTzdata, lines 123-124: the zone compactor is built
MakeZoneCompactor ==
  /\ bdPc = "make_compactor"
  /\ \E ok \in BOOLEAN : Stage("make_compactor", "compactor", ok)
  /\ UNCHANGED <<published, distro>>

\* BuildTzdata, lines 126-132: the zone compactor is given output_data/iana
\* to write
ZoneCompactor ==
  /\ bdPc = "compactor"
  /\ \E ok \in BOOLEAN :
       /\ Stage("compactor", "make_tzlookup", ok)
       /\ published' = IF ok THEN [published EXCEPT !["iana"] = "new"]
                       ELSE published
  /\ UNCHANGED distro

\* BuildTzlookup, lines 136-140: the generator is built
MakeTzlookupGenerator ==
  /\ bdPc = "make_tzlookup"
  /\ \E ok \in BOOLEAN : Stage("make_tzlookup", "tzlookup", ok)
  /\ UNCHANGED <<published, distro>>

\* BuildTzlookup, lines 142-145: the generator is given
\* output_data/android/tzlookup.xml to write
TzLookupGenerator ==
  /\ bdPc = "tzlookup"
  /\ \E ok \in BOOLEAN :
       /\ Stage("tzlookup", "distro_remove", ok)
       /\ published' = IF ok THEN [published EXCEPT !["android"] = "new"]
                       ELSE published
  /\ UNCHANGED distro

\* glob('%s/*.zip') + glob('%s/*.txt'), lines 155-160
ExistingDistroFiles(files) ==
  { f \in DOMAIN files : EndsWith(f, <<".", "z", "i", "p">>) \/ EndsWith(f, <<".", "t", "x", "t">>) }

\* CreateDistroFiles, lines 149-164: the existing distro files are removed
RemoveExistingDistroFiles ==
  /\ bdPc = "distro_remove"
  /\ distro' = [f \in DOMAIN distro \ ExistingDistroFiles(distro) |-> distro[f]]
  /\ bdPc' = "distro"
  /\ UNCHANGED <<published, published0, distro0, bdLog, bdFailed, bdOutcome, dlVars, ptVars, wsVars, rpVars>>

\* CreateDistroFiles, lines 166-171: create-distro.py writes the distro
\* files into output_data/distro
CreateDistro ==
  /\ bdPc = "distro"
  /\ \E ok \in BOOLEAN :
       /\ Stage("distro", "test_files", ok)
       /\ distro' = IF ok
                    THEN [f \in DOMAIN distro \cup {DistroZip, DistroTxt} |->
                            IF f \in {DistroZip, DistroTxt} THEN "new" ELSE distro[f]]
                    ELSE distro
  /\ UNCHANGED published

\* UpdateTestFiles, lines 173-176
UpdateTestFiles ==
  /\ bdPc = "test_files"
  /\ \E ok \in BOOLEAN : Stage("test_files", "exit", ok)
  /\ UNCHANGED <<published, distro>>

\* main, lines 206-207
Exit ==
  /\ bdPc = "exit"
  /\ bdPc' = "done"
  /\ bdOutcome' = "exit_0"
  /\ UNCHANGED <<published, published0, distro, distro0, bdLog, bdFailed, dlVars, ptVars, wsVars, rpVars>>

NextBuild ==
  \/ ExtractIanaData \/ BuildIcuData \/ MakeAndCopyOverlayTzIcuData
  \/ Zic \/ WriteSetup \/ MakeZoneCompactor \/ ZoneCompactor
  \/ MakeTzlookupGenerator \/ TzLookupGenerator
  \/ RemoveExistingDistroFiles \/ CreateDistro \/ UpdateTestFiles \/ Exit

(***************************************************************************)
(* update-tzdata.py: WriteSetupFile                                        *)
(***************************************************************************)

\* the most lines the region files hold together
MaxLines == 3

\* lines 31-35
regions ==
  <<"africa", "antarctica", "asia", "australasia", "etcetera", "europe",
    "northamerica", "southamerica", "backward">>

LINK == <<"L", "i", "n", "k">>
ZONE == <<"Z", "o", "n", "e">>

\* lines of a region file, without their line ends: a Zone line with the
\* fields that follow the name, a Zone line with two blanks, two Link
\* lines, a comment, a blank line, a Link line without its alias and a Zone
\* line without its name
ZoneA == ZONE \o <<" ", "A", " ", "1">>
ZoneB == ZONE \o <<" ", " ", "B">>
LinkAB == LINK \o <<" ", "A", " ", "B">>
LinkBA == LINK \o <<" ", "B", " ", "A">>
CommentLine == <<"#", " ", "A">>
BlankLine == <<>>
LinkA == LINK \o <<" ", "A">>
ZoneOnly == ZONE
RegionLines == {ZoneA, ZoneB, LinkAB, LinkBA, CommentLine, BlankLine, LinkA, ZoneOnly}

\* str.split(): the maximal runs of characters that are not white space
RECURSIVE Split(_)
Split(line) ==
  IF line = <<>> THEN <<>>
  ELSE IF Head(line) = " " THEN Split(Tail(line))
  ELSE LET n == CHOOSE k \in 1..Len(line) :
                  /\ \A j \in 1..k : line[j] # " "
                  /\ k = Len(line) \/ line[k + 1] = " " IN
         <<SubSeq(line, 1, n)>> \o Split(SubSeq(line, n + 1, Len(line)))

\* '%s %s %s' % (a, b, c)
Format3(a, b, c) == a \o <<" ">> \o b \o <<" ">> \o c

\* list.sort() and sorted(): ascending by code points, duplicates kept
RECURSIVE InsertSorted(_, _)
InsertSorted(sorted, x) ==
  IF sorted = <<>> THEN <<x>>
  ELSE IF StrLess(x, Head(sorted)) THEN <<x>> \o sorted
  ELSE <<Head(sorted)>> \o InsertSorted(Tail(sorted), x)

RECURSIVE SortList(_)
SortList(list) ==
  IF list = <<>> THEN <<>>
  ELSE InsertSorted(SortList(SubSeq(list, 1, Len(list) - 1)), list[Len(list)])

\* sorted(set(list))
RECURSIVE SortedSet(_)
SortedSet(S) ==
  IF S = {} THEN <<>>
  ELSE LET x == CHOOSE y \in S : TRUE IN InsertSorted(SortedSet(S \ {x}), x)

LinesUpTo(n) == UNION { [1..k -> RegionLines] : k \in 0..n }

InitSetup ==
  /\ \E a \in LinesUpTo(MaxLines) :
       \E b \in LinesUpTo(MaxLines - Len(a)) :
         region_files = [r \in Range(regions) |->
                           IF r = "africa" THEN a
                           ELSE IF r = "backward" THEN b ELSE <<>>]
  /\ wsRegion = 1
  /\ wsLine = 1
  /\ links = <<>>
  /\ zones = <<>>
  /\ setup = None
  /\ wsPc = "read"
  /\ wsOutcome = "running"

\* lines 59-60: the loops are at a line of a region file
AtLine ==
  /\ wsPc = "read" /\ wsRegion <= Len(regions)
  /\ wsLine <= Len(region_files[regions[wsRegion]])

CurrentLine == region_files[regions[wsRegion]][wsLine]

\* an IndexError that nothing catches ends the run
WsRaise ==
  /\ wsPc' = "done"
  /\ wsOutcome' = "raised"
  /\ UNCHANGED <<region_files, wsRegion, wsLine, links, zones, setup>>

\* lines 61-65: a Link line; fields[2] raises IndexError when the line has
\* fewer than three fields
ReadLinkLine ==
  /\ AtLine
  /\ LET fields == Split(CurrentLine) IN
       /\ fields # <<>> /\ fields[1] = LINK
       /\ IF Len(fields) >= 3
          THEN /\ links' = Append(links, Format3(fields[1], fields[2], fields[3]))
               /\ zones' = Append(zones, fields[3])
               /\ wsLine' = wsLine + 1
               /\ UNCHANGED <<region_files, wsRegion, setup, wsPc, wsOutcome>>
          ELSE WsRaise
  /\ UNCHANGED <<dlVars, ptVars, bdVars, rpVars>>

\* lines 66-67: a Zone line; fields[1] raises IndexError when the line has
\* the directive only
ReadZoneLine ==
  /\ AtLine
  /\ LET fields == Split(CurrentLine) IN
       /\ fields # <<>> /\ fields[1] = ZONE
       /\ IF Len(fields) >= 2
          THEN /\ zones' = Append(zones, fields[2])
               /\ wsLine' = wsLine + 1
               /\ UNCHANGED <<region_files, wsRegion, links, setup, wsPc, wsOutcome>>
          ELSE WsRaise
  /\ UNCHANGED <<dlVars, ptVars, bdVars, rpVars>>

\* lines 61-66: a line without fields, or of another first field
ReadOtherLine ==
  /\ AtLine
  /\ LET fields == Split(CurrentLine) IN
       IF fields = <<>> THEN TRUE ELSE fields[1] \notin {LINK, ZONE}
  /\ wsLine' = wsLine + 1
  /\ UNCHANGED <<region_files, wsRegion, links, zones, setup, wsPc, wsOutcome>>
  /\ UNCHANGED <<dlVars, ptVars, bdVars, rpVars>>

\* lines 59-60: the file is read, the loop goes on with the next region
NextRegionFile ==
  /\ wsPc = "read" /\ wsRegion <= Len(regions)
  /\ wsLine > Len(region_files[regions[wsRegion]])
  /\ wsRegion' = wsRegion + 1
  /\ wsLine' = 1
  /\ UNCHANGED <<region_files, links, zones, setup, wsPc, wsOutcome>>
  /\ UNCHANGED <<dlVars, ptVars, bdVars, rpVars>>

\* WriteSetupFile writing the two lists as they were read
WriteSetupFileUnsorted ==
  /\ wsPc = "read" /\ wsRegion > Len(regions)
  /\ setup' = Some(links \o zones)
  /\ wsPc' = "done"
  /\ wsOutcome' = "returned"
  /\ UNCHANGED <<region_files, wsRegion, wsLine, links, zones>>
  /\ UNCHANGED <<dlVars, ptVars, bdVars, rpVars>>

\* lines 68-77: zones is sorted, then the setup file is written: the sorted
\* set of the links, then the sorted set of the zones, one to a line
WriteSetupFile ==
  /\ wsPc = "read" /\ wsRegion > Len(regions)
  /\ zones' = SortList(zones)
  /\ setup' = Some(SortedSet(Range(links)) \o SortedSet(Range(zones')))
  /\ wsPc' = "done"
  /\ wsOutcome' = "returned"
  /\ UNCHANGED <<region_files, wsRegion, wsLine, links>>
  /\ UNCHANGED <<dlVars, ptVars, bdVars, rpVars>>

NextSetup ==
  \/ ReadLinkLine \/ ReadZoneLine \/ ReadOtherLine \/ NextRegionFile
  \/ WriteSetupFile

(***************************************************************************)
(* patches.py: repack                                                      *)
(***************************************************************************)

\* line 72: 1970-01-01 00:00:00 +0000, in seconds
Epoch == 0

\* the entries of a working tree, named relative to temp_dir: two files at
\* the top, a directory and a file inside it
EntryA == <<"a">>
EntryC == <<"c">>
EntryD == <<"d">>
EntryDB == <<"d", "/", "b">>
NameSets == { {EntryA, EntryC}, {EntryA, EntryD, EntryDB} }

\* modification times other than the epoch, owners, and permission bits
MTimes == {1, 2}
Owners == {0, 1000}
Modes ==
  { [u |-> {"r", "w"}, g |-> {"r", "w"}, o |-> {"r"}],
    [u |-> {"r", "w"}, g |-> {}, o |-> {}] }

\* os.listdir(temp_dir) names the entries of temp_dir itself
TopLevel(names) == { n \in names : ~Contains(n, "/") }

\* the orders in which a listing may return a set of names
Orderings(S) == { q \in [1..Cardinality(S) -> S] : Range(q) = S }

ContentOf(name) == IF name = EntryD THEN "directory" ELSE <<"data of", name>>

InitRepack ==
  /\ \E names \in NameSets, m \in Modes :
       \E t1, t2 \in [names -> MTimes], o1, o2 \in Owners :
         \E l1, l2 \in Orderings(TopLevel(names)) :
           /\ trees = << [n \in names |-> [content |-> ContentOf(n), mode |-> m,
                                          mtime |-> t1[n], uid |-> o1]],
                         [n \in names |-> [content |-> ContentOf(n), mode |-> m,
                                          mtime |-> t2[n], uid |-> o2]] >>
           /\ listings = <<l1, l2>>
           /\ rpTodo = l1
  /\ rpRun = 1
  /\ rpPc = "touch"
  /\ rpArchives = <<None, None>>
  /\ rpOutcome = "running"

\* lines 71-72: touch sets the times of one entry of the listing to the epoch
Touch ==
  /\ rpPc = "touch" /\ rpTodo # <<>>
  /\ trees' = [trees EXCEPT ![rpRun][Head(rpTodo)].mtime = Epoch]
  /\ rpTodo' = Tail(rpTodo)
  /\ UNCHANGED <<listings, rpRun, rpPc, rpArchives, rpOutcome>>
  /\ UNCHANGED <<dlVars, ptVars, bdVars, wsVars>>

\* --mode=go+u,go-w: group and others get the owner's bits and lose write
TarMode(mode) ==
  [u |-> mode.u, g |-> (mode.g \cup mode.u) \ {"w"}, o |-> (mode.o \cup mode.u) \ {"w"}]

\* line 74, 'tar ... --numeric-owner --owner=0 --group=0 --mode=go+u,go-w
\* --sort=name -cf - *': every entry of the tree, in the order of the names,
\* with owner and group 0, the adjusted mode, and the modification time the
\* entry has; gzip -9n adds neither a name nor a time
TarGzip(tree) ==
  LET names == SortedSet(DOMAIN tree) IN
    [i \in DOMAIN names |->
       [name |-> names[i], content |-> tree[names[i]].content,
        mode |-> TarMode(tree[names[i]].mode), mtime |-> tree[names[i]].mtime,
        uid |-> 0, gid |-> 0]]

\* lines 74-78: the archive is written, or repack ends the process; after
\* the first tree the second is repacked
Pack ==
  /\ rpPc = "touch" /\ rpTodo = <<>>
  /\ \E ret_code \in {0, 256} :
       IF ret_code # 0
       THEN /\ rpPc' = "done"
            /\ rpOutcome' = "repack_failed"
            /\ UNCHANGED <<rpRun, rpTodo, rpArchives>>
       ELSE /\ rpArchives' = [rpArchives EXCEPT ![rpRun] = Some(TarGzip(trees[rpRun]))]
            /\ IF rpRun = 1
               THEN /\ rpRun' = rpRun + 1
                    /\ rpTodo' = listings[rpRun + 1]
                    /\ UNCHANGED <<rpPc, rpOutcome>>
               ELSE /\ rpPc' = "done"
                    /\ rpOutcome' = "returned"
                    /\ UNCHANGED <<rpRun, rpTodo>>
  /\ UNCHANGED <<trees, listings>>
  /\ UNCHANGED <<dlVars, ptVars, bdVars, wsVars>>

NextRepack == Touch \/ Pack

(***************************************************************************)
(* The specifications: one script runs, the others do not                  *)
(***************************************************************************)

IdleDownload ==
  /\ args = [tools |-> FALSE, data |-> FALSE, release_version |-> None]
  /\ nlst = <<>> /\ fs = {} /\ fs0 = {} /\ tmpFiles = {} /\ tmpDirs = 0
  /\ pc = "done" /\ after = "done" /\ file_prefixes = <<>> /\ local_dir = <<>>
  /\ remote_iana_tar_filename = <<>> /\ local_iana_tar_file = None
  /\ new_files = <<>> /\ output_files = <<>> /\ outcome = "idle" /\ log = <<>>

IdlePatches ==
  /\ patches_listing = <<>> /\ pfs = <<>> /\ pfs0 = <<>> /\ ptPc = "done"
  /\ ptTodo = <<>> /\ applied = <<>> /\ was_patched = FALSE
  /\ iana_data_tar_file = None /\ ptResult = None /\ ptOutcome = "idle"

IdleBuild ==
  /\ published = [l \in Locations |-> "absent"] /\ published0 = published
  /\ distro = <<>> /\ distro0 = <<>> /\ bdPc = "done" /\ bdLog = <<>>
  /\ bdFailed = "none" /\ bdOutcome = "idle"

IdleSetup ==
  /\ region_files = <<>> /\ wsRegion = 1 /\ wsLine = 1 /\ links = <<>>
  /\ zones = <<>> /\ setup = None /\ wsPc = "done" /\ wsOutcome = "idle"

IdleRepack ==
  /\ trees = <<>> /\ listings = <<>> /\ rpRun = 1 /\ rpPc = "done"
  /\ rpTodo = <<>> /\ rpArchives = <<>> /\ rpOutcome = "idle"

DownloadInit == InitDownload /\ IdlePatches /\ IdleBuild /\ IdleSetup /\ IdleRepack
PatchesInit == InitPatches /\ IdleDownload /\ IdleBuild /\ IdleSetup /\ IdleRepack
BuildInit == InitBuild /\ IdleDownload /\ IdlePatches /\ IdleSetup /\ IdleRepack
SetupInit == InitSetup /\ IdleDownload /\ IdlePatches /\ IdleBuild /\ IdleRepack
RepackInit == InitRepack /\ IdleDownload /\ IdlePatches /\ IdleBuild /\ IdleSetup

\* a run of download-iana-files.py
SpecDownload == DownloadInit /\ [][NextDownload]_vars

\* a run of patches.Apply()
SpecPatches == PatchesInit /\ [][NextPatches]_vars

\* a run of update-tzdata.py
SpecBuild == BuildInit /\ [][NextBuild]_vars

\* a call of WriteSetupFile
SpecSetup == SetupInit /\ [][NextSetup]_vars

\* repack of two working trees
SpecRepack == RepackInit /\ [][NextRepack]_vars

(***************************************************************************)
(* Properties of download-iana-files.py                                    *)
(***************************************************************************)

\* the local archives and signatures of one prefix in one directory
FilesOfPrefix(files, dir, file_prefix) ==
  { q \in files : StartsWith(q, PathJoin(dir, file_prefix)) }

\* the names of the listing that pass the filter of a prefix
CandidatesOf(file_prefix) ==
  { n \in Range(nlst) : StartsWith(n, file_prefix) /\ EndsWith(n, TARGZ) }

\* the listing holds no name with a path separator
WellFormedListing == \A n \in Range(nlst) : ~Contains(n, "/")

\* C2: a file is copied into local_dir, and a local file removed, only
\* after CheckSignature succeeded for the archive of that prefix; when
\* CheckSignature fails the run ends there, with the local files of that
\* prefix as they were before the run.
C2_VerifiedBeforeReplace ==
  /\ \A i \in DOMAIN log :
       log[i].op \in {"copy", "remove"} =>
         \E j \in 1..(i - 1) :
           /\ log[j].op = "verify_ok"
           /\ log[j].dir = log[i].dir /\ log[j].prefix = log[i].prefix
           /\ log[i].op = "copy" =>
                log[i].name \in { PathJoin(log[j].dir, log[j].name),
                                  PathJoin(log[j].dir, log[j].name \o ASC) }
  /\ \A i \in DOMAIN log :
       log[i].op = "verify_failed" =>
         /\ i = Len(log)
         /\ pc = "done" /\ outcome = "raised"
         /\ FilesOfPrefix(fs, log[i].dir, log[i].prefix)
              = FilesOfPrefix(fs0, log[i].dir, log[i].prefix)

\* a run that replaced one archive and whose next signature check failed
C2_Witness ==
  \E i \in DOMAIN log :
    /\ log[i].op = "verify_failed"
    /\ \E j \in 1..(i - 1) : log[j].op = "copy"

\* C4: a run that fails leaves the local directories as they were before it.
C4_FailedRunPublishesNothing ==
  outcome \in {"exit_1", "raised"} => fs = fs0

\* the file name of a pinned release, written out
PinnedFilename(file_prefix, version) ==
  CASE file_prefix = TZDATA20 /\ version = V2023a -> DataA
    [] file_prefix = TZDATA20 /\ version = V2023b -> DataB
    [] file_prefix = TZCODE20 /\ version = V2023a -> CodeA
    [] file_prefix = TZCODE20 /\ version = V2023b ->
         <<"t", "z", "c", "o", "d", "e", "2", "0", "2", "3", "b">> \o TARGZ

\* C6: with a pinned release FindRemoteTar returns the pinned file name,
\* which is then among the candidates, and exits when it is not among them
\* (or the listing is rejected); it returns no other name.
C6_PinnedExactly ==
  args.release_version # None =>
    \A i \in DOMAIN log :
      LET e == log[i]
          want == PinnedFilename(e.prefix, args.release_version[1]) IN
        /\ e.op \in {"skip", "new"} =>
             e.name = want /\ want \in CandidatesOf(e.prefix)
        /\ e.op = "find_exit" =>
             want \notin CandidatesOf(e.prefix) \/ ~WellFormedListing

\* the pinned 2023a is returned although 2023b is listed
C6_Witness ==
  /\ args.release_version = Some(V2023a)
  /\ DataB \in Range(nlst)
  /\ \E i \in DOMAIN log : log[i].op \in {"skip", "new"} /\ log[i].name = DataA

\* C7: with no pinned release FindRemoteTar returns the greatest candidate
\* under string comparison, whatever the order of the listing, and exits
\* only when there is no candidate (or the listing is rejected).
C7_LatestCandidate ==
  args.release_version = None =>
    \A i \in DOMAIN log :
      LET e == log[i] IN
        /\ e.op \in {"skip", "new"} =>
             /\ e.name \in CandidatesOf(e.prefix)
             /\ \A n \in CandidatesOf(e.prefix) : n = e.name \/ StrLess(n, e.name)
        /\ e.op = "find_exit" =>
             CandidatesOf(e.prefix) = {} \/ ~WellFormedListing

\* the greatest candidate is returned when it is listed last
C7_Witness ==
  /\ args.release_version = None
  /\ nlst = <<DataA, DataB>>
  /\ \E i \in DOMAIN log : log[i].op \in {"skip", "new"} /\ log[i].name = DataB

\* C8: when a candidate of the prefix holds a '/', FindRemoteTar ends the
\* process and no name is selected for that prefix, also when the pinned or
\* the greatest well-formed candidate is listed.
C8_BogusNameRejected ==
  \A i \in DOMAIN log :
    (\E n \in CandidatesOf(log[i].prefix) : Contains(n, "/")) =>
      /\ log[i].op = "find_exit"
      /\ i = Len(log)
      /\ pc = "done" /\ outcome = "exit_1"
      /\ remote_iana_tar_filename = <<>>
      /\ fs = fs0 /\ tmpDirs = 0

\* the listing is rejected although the pinned release is listed too
C8_Witness ==
  /\ outcome = "exit_1"
  /\ Bogus \in Range(nlst) /\ DataB \in Range(nlst)
  /\ args.release_version = Some(V2023b)
  /\ log # <<>> /\ log[Len(log)].op = "find_exit"

\* the local archive of a prefix before the run, as a set: empty or one path
LocalArchives0(dir, file_prefix) ==
  { q \in FilesOfPrefix(fs0, dir, file_prefix) : EndsWith(q, TARGZ) }

\* C9: a prefix is fetched iff there is no local archive or the remote name
\* is greater than the local base name; it is skipped iff there is a local
\* archive and the remote name is less than or equal to its base name.
C9_FetchIffNewer ==
  \A i \in DOMAIN log :
    LET e == log[i] IN
      /\ e.op \in {"skip", "new"} =>
           /\ e.local = None <=> LocalArchives0(e.dir, e.prefix) = {}
           /\ e.local # None => e.local[1] \in LocalArchives0(e.dir, e.prefix)
      /\ e.op = "new" =>
           /\ e.local = None \/ StrLess(Basename(e.local[1]), e.name)
           /\ i < Len(log) =>
                log[i + 1].op \in {"fetch", "fetch_failed"} /\ log[i + 1].name = e.name
      /\ e.op = "skip" =>
           /\ e.local # None
           /\ e.name = Basename(e.local[1]) \/ StrLess(e.name, Basename(e.local[1]))
           /\ i < Len(log) => log[i + 1].op \in {"skip", "new", "find_exit"}
      /\ e.op \in {"fetch", "fetch_failed", "verify_ok", "verify_failed", "copy", "remove"} =>
           \E j \in 1..(i - 1) :
             log[j].op = "new" /\ log[j].dir = e.dir /\ log[j].prefix = e.prefix

\* one run that replaced a local archive by a newer one, fetched an archive
\* where there was none, and skipped a prefix whose remote name equals the
\* local one
C9_Witness ==
  /\ \E i \in DOMAIN log :
       log[i].op = "new" /\ log[i].local # None /\ \E j \in DOMAIN log : log[j].op = "remove"
  /\ \E i \in DOMAIN log :
       log[i].op = "skip" /\ log[i].name = Basename(log[i].local[1])

\* the artifacts the command line asks for
Requested ==
  (IF args.tools THEN {<<iana_tools_dir, TZDATA20>>, <<iana_tools_dir, TZCODE20>>} ELSE {})
  \cup (IF args.data THEN {<<iana_data_dir, TZDATA20>>} ELSE {})

\* the remote release of an artifact is not newer than the local one
NotNewer(dir, file_prefix) ==
  LET found == FindRemoteTar(nlst, file_prefix, args.release_version) IN
  /\ found.kind = "return"
  /\ \E q \in LocalArchives0(dir, file_prefix) :
       found.name = Basename(q) \/ StrLess(found.name, Basename(q))

NothingNewer == Requested # {} /\ \A r \in Requested : NotNewer(r[1], r[2])

\* C10: when no requested artifact is newer than the local one the run
\* writes nothing: the local directories stay as they were, no temporary
\* directory is made and nothing is downloaded, the output list stays
\* empty, and the run ends reporting that no files were updated.
C10_NoOpRun ==
  NothingNewer =>
    /\ fs = fs0
    /\ tmpDirs = 0 /\ tmpFiles = {}
    /\ new_files = <<>> /\ output_files = <<>>
    /\ \A i \in DOMAIN log : log[i].op = "skip"
    /\ pc = "done" => outcome = "no_files_updated"

\* a finished run for the tools and the data in which nothing was newer
C10_Witness ==
  /\ NothingNewer
  /\ args.tools /\ args.data
  /\ pc = "done" /\ outcome = "no_files_updated"
  /\ Len(log) = 3

\* the events of the log that belong to the round of event i
SameRound(i, j) == log[j].dir = log[i].dir /\ log[j].prefix = log[i].prefix

\* the round that event i opened has copied both files and done its removals
Replaced(i) ==
  /\ log[i].op = "new" /\ log[i].local # None
  /\ Cardinality({ j \in DOMAIN log : log[j].op = "copy" /\ SameRound(i, j) }) = 2
  /\ ~(pc \in {"remove_tar", "remove_sig"}
       /\ local_dir = log[i].dir /\ Head(file_prefixes) = log[i].prefix)

\* a list holds the two paths next to each other, the archive first
ArchiveThenSignature(list, archive) ==
  \E k \in 1..(Len(list) - 1) : list[k] = archive /\ list[k + 1] = archive \o ASC

\* C19: once a prefix whose remote release was newer than the local archive
\* has been replaced, local_dir holds the new archive and its signature, the
\* previous archive and its signature are gone, and the two new paths are in
\* the returned list, archive first; the previous files are removed only
\* after both new files were copied in.
C19_ReplacedAfterCopy ==
  \A i \in DOMAIN log :
    /\ Replaced(i) =>
         LET new_local_iana_tar_file == PathJoin(log[i].dir, log[i].name)
             old == log[i].local[1] IN
           /\ new_local_iana_tar_file \in fs
           /\ new_local_iana_tar_file \o ASC \in fs
           /\ old \notin fs /\ old \o ASC \notin fs
           /\ \/ ArchiveThenSignature(new_files, new_local_iana_tar_file)
              \/ ArchiveThenSignature(output_files, new_local_iana_tar_file)
    /\ log[i].op = "remove" =>
         /\ Cardinality({ j \in 1..(i - 1) : log[j].op = "copy" /\ SameRound(i, j) }) = 2
         /\ \A j \in (i + 1)..Len(log) : ~(log[j].op = "copy" /\ SameRound(i, j))
    /\ (log[i].op = "new" /\ log[i].local # None
        /\ (log[i].local[1] \notin fs
            \/ (log[i].local[1] \o ASC \in fs0 /\ log[i].local[1] \o ASC \notin fs))) =>
         /\ PathJoin(log[i].dir, log[i].name) \in fs
         /\ PathJoin(log[i].dir, log[i].name) \o ASC \in fs

\* a finished run that replaced a signed local archive by a newer one
C19_Witness ==
  /\ pc = "done" /\ outcome = "new_files"
  /\ \E i \in DOMAIN log :
       /\ Replaced(i)
       /\ log[i].local[1] \o ASC \in fs0
       /\ StrLess(Basename(log[i].local[1]), log[i].name)

\* the pinned release of an artifact is not newer than its local archive
PinnedNotNewer(dir, file_prefix) ==
  /\ args.release_version # None
  /\ \E q \in LocalArchives0(dir, file_prefix) :
       StrLessEq(PinnedFilename(file_prefix, args.release_version[1]), Basename(q))

\* C20: with a pinned release whose file name is not greater than the local
\* archive's, the prefix is skipped as without a pin: its local archive and
\* signature stay in place and nothing is downloaded for it.
C20_PinNeverDowngrades ==
  \A r \in Requested :
    PinnedNotNewer(r[1], r[2]) =>
      /\ FilesOfPrefix(fs, r[1], r[2]) = FilesOfPrefix(fs0, r[1], r[2])
      /\ \A i \in DOMAIN log :
           (log[i].dir = r[1] /\ log[i].prefix = r[2]) =>
             /\ log[i].op \in {"skip", "find_exit"}
             /\ log[i].op = "skip" =>
                  log[i].name = PinnedFilename(r[2], args.release_version[1])
      /\ (pc = "done" /\ outcome \in {"no_files_updated", "new_files"}) =>
           \E i \in DOMAIN log :
             log[i].op = "skip" /\ log[i].dir = r[1] /\ log[i].prefix = r[2]

\* the pinned 2023a was skipped where 2023b is the local archive
C20_Witness ==
  /\ args.release_version = Some(V2023a)
  /\ \E i \in DOMAIN log :
       /\ log[i].op = "skip" /\ log[i].name = DataA
       /\ log[i].local = Some(PathJoin(iana_data_dir, DataB))
  /\ pc = "done"

(***************************************************************************)
(* Properties of patches.py                                                *)
(***************************************************************************)

\* int() of the digits a patch file name starts with
RECURSIVE DigitsValue(_, _)
DigitsValue(s, acc) ==
  IF s # <<>> /\ Head(s) \in Digits
  THEN DigitsValue(Tail(s), 10 * acc + (Ord(Head(s)) - Ord("0")))
  ELSE acc

Priority(patch_file) == DigitsValue(patch_file, 0)

\* C1: when applying a patch fails the run ends before repack, and the
\* patched directory holds what it held before the run.
C1_FailedPatchKeepsPatchedDir ==
  ptOutcome = "patch_failed" =>
    /\ ptResult = None
    /\ DirContents(pfs, iana_patched_data_dir) = DirContents(pfs0, iana_patched_data_dir)

\* C5: the patches are applied in ascending order of their numeric
\* priority, whatever the order of the directory listing.
C5_AscendingPriority ==
  \A i, j \in DOMAIN applied :
    i < j => Priority(applied[i].patch) < Priority(applied[j].patch)

\* the original input archive: the one file of the original directory
OriginalArchive ==
  CHOOSE q \in DOMAIN pfs0 : q = PathJoin(iana_original_input_data_dir, Basename(q))

\* the names of the patch files applied so far
AppliedPatches == [i \in DOMAIN applied |-> applied[i].patch]

\* C11: Apply() repacks iff a patch was applied. With no patch applied it
\* returns the path of the original archive, which is as it was, and the
\* patched directory holds no archive; with a patch applied it returns the
\* archive repack built in the patched directory under the original name.
C11_RepackIffPatched ==
  ptOutcome = "returned" =>
    /\ OriginalArchive \in DOMAIN pfs /\ pfs[OriginalArchive] = pfs0[OriginalArchive]
    /\ applied = <<>> =>
         /\ ptResult = Some(OriginalArchive)
         /\ DirContents(pfs, iana_patched_data_dir) = {}
    /\ applied # <<>> =>
         LET built == PathJoin(iana_patched_data_dir, Basename(OriginalArchive)) IN
           /\ ptResult = Some(built)
           /\ built \in DOMAIN pfs
           /\ pfs[built] = Repacked(Basename(OriginalArchive), AppliedPatches)

\* Apply() returned the archive repacked after two patches, one file of the
\* patch directory not being a patch
C11_Witness ==
  /\ ptOutcome = "returned"
  /\ Len(applied) = 2 /\ Len(patches_listing) = 3
  /\ ptResult # Some(OriginalArchive)

\* C16: when applying a patch fails the process ends at that patch: no file
\* later in the listing is applied, repack is not invoked, and Apply()
\* returns nothing.
C16_FailedPatchHalts ==
  ptOutcome = "patch_failed" =>
    /\ ptPc = "done"
    /\ ptResult = None
    /\ ptTodo # <<>> /\ PatchMatch(Head(ptTodo)) # None
    /\ \A i \in DOMAIN applied : applied[i].patch \notin Range(ptTodo)
    /\ Len(applied) + Len(ptTodo) <= Len(patches_listing)
    /\ DirContents(pfs, iana_patched_data_dir) = {}

\* the second of three patches failed
C16_Witness ==
  /\ ptOutcome = "patch_failed"
  /\ Len(applied) = 1 /\ Len(ptTodo) = 2
  /\ \A i \in DOMAIN ptTodo : PatchMatch(ptTodo[i]) # None

\* C18: when Apply() has returned the patched directory is empty if no
\* patch was applied, and holds the repacked archive and nothing else if
\* one was; an archive of an earlier run is not kept.
C18_PatchedDirAfterApply ==
  ptOutcome = "returned" =>
    DirContents(pfs, iana_patched_data_dir) =
      IF applied = <<>> THEN {}
      ELSE { << PathJoin(iana_patched_data_dir, Basename(OriginalArchive)),
                Repacked(Basename(OriginalArchive), AppliedPatches) >> }

\* Apply() returned after a run that found the archive of an earlier run,
\* under another name, in the patched directory
C18_Witness ==
  /\ ptOutcome = "returned"
  /\ \E f \in DirContents(pfs0, iana_patched_data_dir) :
       Basename(f[1]) # Basename(OriginalArchive)
  /\ applied # <<>>

(***************************************************************************)
(* Properties of update-tzdata.py                                          *)
(***************************************************************************)

\* the stages that come before the distro files are published
BuildStages ==
  {"extract", "icu_build", "icu_overlay", "zic", "setup", "make_compactor",
   "compactor", "make_tzlookup", "tzlookup"}

\* C3: the published locations change only once every stage has
\* succeeded, and a run in which a stage fails leaves them as they were.
C3_PublishOnlyAfterSuccess ==
  /\ (published # published0 \/ distro # distro0) =>
       BuildStages \subseteq Range(bdLog) /\ bdFailed = "none"
  /\ bdOutcome = "raised" => published = published0 /\ distro = distro0

\* the order of the stages of main
StageOrder ==
  <<"extract", "icu_build", "icu_overlay", "zic", "setup", "make_compactor",
    "compactor", "make_tzlookup", "tzlookup", "distro", "test_files">>

\* C17: the stages of main run in the fixed order extract, ICU build, zic,
\* setup listing, zone compactor, tzlookup generator, distro creation,
\* test-file update, and the stage that failed is the last one invoked.
C17_FixedOrderStopsAtFailure ==
  /\ Len(bdLog) <= Len(StageOrder)
  /\ \A i \in DOMAIN bdLog : bdLog[i] = StageOrder[i]
  /\ bdFailed # "none" =>
       /\ bdLog # <<>> /\ bdLog[Len(bdLog)] = bdFailed
       /\ bdPc = "done"
  /\ bdFailed = "zic" => "compactor" \notin Range(bdLog)
  /\ bdFailed \in {"compactor", "make_tzlookup", "tzlookup"} =>
       "distro" \notin Range(bdLog)

\* zic failed after the extraction and the ICU build had run
C17_Witness ==
  /\ bdFailed = "zic"
  /\ bdLog = <<"extract", "icu_build", "icu_overlay", "zic">>

(***************************************************************************)
(* Properties of WriteSetupFile                                            *)
(***************************************************************************)

\* the lines of the region files of the region list
AllLines ==
  UNION { Range(region_files[regions[r]]) : r \in DOMAIN regions }

FieldsOfLines == { Split(l) : l \in AllLines }

\* the 'Link <target> <name>' and 'Zone <name>' records of the region files
LinkRecords == { f \in FieldsOfLines : Len(f) >= 3 /\ f[1] = LINK }
ZoneRecords == { f \in FieldsOfLines : Len(f) >= 2 /\ f[1] = ZONE }

LinkPairs == { <<f[2], f[3]>> : f \in LinkRecords }
ZoneNames == { f[2] : f \in ZoneRecords } \cup { f[3] : f \in LinkRecords }
LinkLines == { LINK \o <<" ">> \o p[1] \o <<" ">> \o p[2] : p \in LinkPairs }

\* the entries of the setup file that are Link lines
IsLinkEntry(l) == StartsWith(l, LINK \o <<" ">>)

\* C13: a record line with fewer fields than its directive needs, a blank
\* line and a comment line are skipped without an error: the call never
\* raises, and what it writes comes from the complete records alone.
C13_MalformedLinesSkipped ==
  /\ wsOutcome # "raised"
  /\ (wsPc = "done" /\ wsOutcome # "idle") =>
       setup # None /\ Range(setup[1]) = LinkLines \cup ZoneNames

\* C14: for any contents of the region files the zone-name entries written
\* are exactly the names of the Zone records and the aliases of the Link
\* records, the Link entries are exactly the pairs of the Link records, and
\* every entry is written once.
C14_ExactZoneAndLinkSets ==
  (wsPc = "done" /\ wsOutcome # "idle") =>
    /\ setup # None
    /\ { l \in Range(setup[1]) : ~IsLinkEntry(l) } = ZoneNames
    /\ { l \in Range(setup[1]) : IsLinkEntry(l) } = LinkLines
    /\ \A i, j \in DOMAIN setup[1] : setup[1][i] = setup[1][j] => i = j

\* C15: the setup listing has the Link lines first and the zone names after
\* them, each block strictly ascending, and it is the one listing of that
\* layout for the set of records read, whatever their order and repetition
\* in the region files.
C15_LinksThenZonesAscending ==
  setup # None =>
    LET s == setup[1]
        n == Cardinality(LinkLines) IN
      /\ Len(s) = n + Cardinality(ZoneNames)
      /\ { s[i] : i \in 1..n } = LinkLines
      /\ { s[i] : i \in (n + 1)..Len(s) } = ZoneNames
      /\ \A i \in 1..(Len(s) - 1) : i # n => StrLess(s[i], s[i + 1])

\* a listing written from records read out of order and more than once:
\* zone B, then zone A, then B again as the alias of a Link
C15_Witness ==
  /\ wsOutcome = "returned"
  /\ region_files["africa"] = <<ZoneB, ZoneA>>
  /\ region_files["backward"] = <<LinkAB>>
  /\ setup = Some(<<LinkAB, <<"A">>, <<"B">>>>)

(***************************************************************************)
(* Properties of repack                                                    *)
(***************************************************************************)

\* C12: two working trees with the same entry names, contents and
\* permission bits give the same archive whatever their modification times,
\* owners and listing orders; every archived entry, at any depth, has the
\* epoch as its modification time and owner and group 0, and the entries are
\* in the order of their names.
C12_RepackDeterministic ==
  (rpPc = "done" /\ rpOutcome = "returned") =>
    /\ rpArchives[1] = rpArchives[2]
    /\ \A t \in 1..2 :
         LET archive == rpArchives[t][1] IN
           /\ \A i \in DOMAIN archive :
                archive[i].mtime = Epoch /\ archive[i].uid = 0 /\ archive[i].gid = 0
           /\ \A i \in 1..(Len(archive) - 1) :
                StrLess(archive[i].name, archive[i + 1].name)

=============================================================================
